---- MODULE Spec2Model ----
(***************************************************************************)
(* The HTTP handlers of the user service (handlers.go): create user, get   *)
(* user by id, login and refresh token, with the error helper              *)
(* respondWithError.  One request is followed from the moment the handler  *)
(* is entered to the moment it returns (or panics).  The UserService, the  *)
(* validators and the JSON / JWT / net/http libraries are collaborators:   *)
(* the service is an oracle, the libraries are modelled by what they do.   *)
(*                                                                         *)
(* Strings are the numbers 0..MaxStr, 0 being the empty string "".         *)
(***************************************************************************)
EXTENDS Integers, Sequences, FiniteSets, TLC

MaxStr == 2

Strs == 0..MaxStr
NonEmpty == 1..MaxStr

StatusOK == 200
StatusCreated == 201
StatusBadRequest == 400
StatusForbidden == 403
StatusInternalServerError == 500

NoErr == "nil"
ErrSyntax == "invalid character"
ErrType == "cannot unmarshal"
ErrValidation == "validation failed"
ErrService == "service error"
ErrSegments == "token contains an invalid number of segments"
ErrAlgUnavailable == "signing method (alg) is unavailable."
ErrUnexpectedAlg == "Unexpected signing method"
ErrExpired == "token is expired"
ErrNotValidYet == "token is not valid yet"
ErrSignature == "signature is invalid"
ErrInvalidToken == "Invalid jwt token"

SecretKey == "SecretKey"

(***************************************************************************)
(* net/http's ResponseWriter.  header is the handler's live header map     *)
(* (only Content-Type is ever set), snapshot is the copy the server takes   *)
(* when WriteHeader is called and is what goes on the wire.                 *)
(***************************************************************************)
NewWriter ==
    [header |-> "", wroteHeader |-> FALSE, status |-> 0, snapshot |-> "",
     headerCalls |-> 0, body |-> <<>>]

HeaderSet(w0, value) == [w0 EXCEPT !.header = value]

WriteHeader(w0, status) ==
    IF w0.wroteHeader
    THEN [w0 EXCEPT !.headerCalls = @ + 1]
    ELSE [w0 EXCEPT !.wroteHeader = TRUE, !.status = status,
                    !.snapshot = w0.header, !.headerCalls = @ + 1]

Write(w0, js) ==
    LET w1 == IF w0.wroteHeader THEN w0
              ELSE [w0 EXCEPT !.wroteHeader = TRUE, !.status = StatusOK,
                              !.snapshot = w0.header]
    IN [w1 EXCEPT !.body = Append(@, js)]

\* The Content-Type the client receives: the snapshot's, else the type the
\* server sniffs from the first bytes of a non-empty body (a JSON text is
\* detected as plain text), else none.
SentContentType(w0) ==
    IF w0.snapshot # "" THEN w0.snapshot
    ELSE IF w0.body # <<>> THEN "text/plain; charset=utf-8"
    ELSE ""

(***************************************************************************)
(* encoding/json.  Decoder.Decode reads the first JSON value of the body   *)
(* and never looks at what follows it.  A body is                          *)
(*   "malformed": its first value is not well-formed JSON (a syntax error, *)
(*                nothing is stored);                                      *)
(*   "trailing":  a well-formed object followed by bytes that make the     *)
(*                body as a whole no JSON text (decoded like the object);  *)
(*   "mistyped":  well formed, with a value of the wrong type (an error;   *)
(*                the values of the right type, obj, are stored all the    *)
(*                same: any field may be set, a repeated key can carry     *)
(*                both a good and a bad value);                            *)
(*   "null":      the JSON null (the pointer payload becomes nil);         *)
(*   "object":    an object; an absent key leaves the field "".            *)
(***************************************************************************)
Decode(body, zero) ==
    CASE body.kind = "malformed" -> [err |-> ErrSyntax, payload |-> zero]
      [] body.kind = "mistyped"  -> [err |-> ErrType,
                                     payload |-> [isNil |-> FALSE, v |-> body.obj]]
      [] body.kind = "null"      -> [err |-> NoErr,
                                     payload |-> [isNil |-> TRUE, v |-> zero.v]]
      [] OTHER                   -> [err |-> NoErr,
                                     payload |-> [isNil |-> FALSE, v |-> body.obj]]

\* json.Marshal of the response structs: the struct's one field under its
\* JSON key.  Strings and structs of strings always marshal.
Marshal(resp) ==
    CASE resp.type = "ErrorResponse" ->
            [err |-> NoErr, js |-> [key |-> "message", val |-> resp.Message]]
      [] resp.type = "LoginResponse" ->
            [err |-> NoErr, js |-> [key |-> "token", val |-> resp.Token]]
      [] OTHER ->
            [err |-> NoErr, js |-> [key |-> "user", val |-> resp.User]]

(***************************************************************************)
(* respondWithError: the JSON error envelope and its status.               *)
(***************************************************************************)
respondWithErrorNoContext(w0, msg, err, status) ==
    LET errMsg == [type |-> "ErrorResponse", Message |-> <<"", err>>]
        m == Marshal(errMsg)
    IN Write(WriteHeader(HeaderSet(w0, "application/json"), status), m.js)

respondWithError(w0, msg, err, status) ==
    LET errMsg == [type |-> "ErrorResponse", Message |-> <<msg, err>>]
        m == Marshal(errMsg)
    IN IF m.err # NoErr
       THEN WriteHeader(HeaderSet(w0, "application/json; charset=UTF-8"), status)
       ELSE Write(WriteHeader(HeaderSet(w0, "application/json"), status), m.js)

(***************************************************************************)
(* The success tail of the handlers: WriteHeader, then Header().Set, then  *)
(* Write, in the order of the source.                                      *)
(***************************************************************************)
respondCreatedAsOK(w0, js) ==
    Write(HeaderSet(WriteHeader(w0, StatusOK), "application/json"), js)

respondCreated(w0, js) ==
    Write(HeaderSet(WriteHeader(w0, StatusCreated), "application/json"), js)

respondOK(w0, js) ==
    Write(HeaderSet(WriteHeader(w0, StatusOK), "application/json"), js)

(***************************************************************************)
(* The `return` that follows every respondWithError: the handler stops     *)
(* when the step failed and goes on to cont otherwise.                     *)
(***************************************************************************)
ReturnMissingAfterValidation(failed, cont) ==
    IF failed /\ cont \notin {"call", "verify"} THEN "done" ELSE cont

ReturnMissingAfterService(failed, cont) ==
    IF failed /\ cont # "respond" THEN "done" ELSE cont

Return(failed, cont) == IF failed THEN "done" ELSE cont

(***************************************************************************)
(* The validators.  Each refuses a payload whose required fields are       *)
(* missing: a nil payload (it has none of them) or an empty field; the     *)
(* identifier of the route must be present and well formed.                *)
(***************************************************************************)
validateCreateUser(p) ==
    IF \/ p.isNil
       \/ p.v.Email = 0 \/ p.v.FirstName = 0 \/ p.v.LastName = 0
       \/ p.v.Password = 0 \/ p.v.Role = 0 \/ p.v.Username = 0
    THEN ErrValidation ELSE NoErr

validateGetUserByID(id) == IF id < 1 THEN ErrValidation ELSE NoErr

validateLoginUser(p) ==
    IF p.isNil \/ p.v.Username = 0 \/ p.v.Password = 0
    THEN ErrValidation ELSE NoErr

validateRefreshToken(p) ==
    IF p.isNil \/ p.v.Token.empty THEN ErrValidation ELSE NoErr

(***************************************************************************)
(* jwt-go.  A token string has three decodable segments or not, names an   *)
(* algorithm in its header, may be past its expiry (exp) or before its     *)
(* start (nbf), is signed with some key, and carries the claims sub,       *)
(* username and role, each absent, a number or a string.                   *)
(***************************************************************************)
RegisteredAlgs == {"HS256", "HS384"}

keyFuncAnyAlg(alg) == [err |-> NoErr, key |-> SecretKey]

\* The Keyfunc of handleRefreshToken.
keyFunc(alg) ==
    IF alg # "HS256"
    THEN [err |-> ErrUnexpectedAlg, key |-> ""]
    ELSE [err |-> NoErr, key |-> SecretKey]

NoClaim == [kind |-> "absent", val |-> 0]
NoClaims == [sub |-> NoClaim, username |-> NoClaim, role |-> NoClaim]

\* jwt.Parse: segments, algorithm lookup, key lookup, exp, nbf, signature;
\* the error reported is the last one found.
Parse(tok) ==
    IF tok.empty \/ ~tok.segments
    THEN [err |-> ErrSegments, isNil |-> TRUE, Valid |-> FALSE, Claims |-> NoClaims]
    ELSE IF tok.alg \notin RegisteredAlgs
    THEN [err |-> ErrAlgUnavailable, isNil |-> FALSE, Valid |-> FALSE,
          Claims |-> tok.claims]
    ELSE LET k == keyFunc(tok.alg)
             e1 == IF tok.expired THEN ErrExpired ELSE NoErr
             e2 == IF tok.notYet THEN ErrNotValidYet ELSE e1
             e3 == IF tok.signedWith # k.key THEN ErrSignature ELSE e2
         IN IF k.err # NoErr
            THEN [err |-> k.err, isNil |-> FALSE, Valid |-> FALSE,
                  Claims |-> tok.claims]
            ELSE [err |-> e3, isNil |-> FALSE, Valid |-> (e3 = NoErr),
                  Claims |-> tok.claims]

\* The type assertion claim.(string): it fails (panics) on an absent claim
\* and on a claim that is not a string.
AssertStringCommaOk(c) ==
    [ok |-> TRUE, val |-> IF c.kind = "string" THEN c.val ELSE 0]

AssertString(c) == [ok |-> c.kind = "string", val |-> c.val]

(***************************************************************************)
(* Requests.                                                               *)
(***************************************************************************)
ZeroCreate ==
    [Email |-> 0, FirstName |-> 0, LastName |-> 0, Password |-> 0, Role |-> 0,
     Username |-> 0]
ZeroLogin == [Username |-> 0, Password |-> 0]

EmptyToken ==
    [empty |-> TRUE, segments |-> FALSE, alg |-> "HS256", expired |-> FALSE,
     notYet |-> FALSE,
     signedWith |-> SecretKey, claims |-> NoClaims]
GarbageToken == [EmptyToken EXCEPT !.empty = FALSE]
ClaimVals ==
    {NoClaim, [kind |-> "number", val |-> 0]}
        \cup {[kind |-> "string", val |-> s] : s \in Strs}
SignedTokens ==
    [empty : {FALSE}, segments : {TRUE}, alg : {"HS256", "HS384", "XX999"},
     expired : BOOLEAN, notYet : BOOLEAN, signedWith : {SecretKey, "OtherKey"},
     claims : [sub : ClaimVals, username : ClaimVals, role : ClaimVals]]
Tokens == {EmptyToken, GarbageToken} \cup SignedTokens
ZeroRefresh == [Token |-> EmptyToken]

Bodies(zero, objects) ==
    {[kind |-> k, obj |-> zero] : k \in {"malformed", "null"}}
        \cup {[kind |-> k, obj |-> o] :
                  k \in {"object", "trailing", "mistyped"}, o \in objects}

CreateObjects ==
    [Email : Strs, FirstName : Strs, LastName : Strs, Password : Strs,
     Role : Strs, Username : Strs]
LoginObjects == [Username : Strs, Password : Strs]
RefreshObjects == [Token : Tokens]

\* -1 is an identifier that breaks the format rules, 0 the empty one.
IDs == {-1} \cup Strs

Requests ==
    [handler : {"create"}, body : Bodies(ZeroCreate, CreateObjects), id : {0},
     referer : {0}]
    \cup [handler : {"get"},
          body : {[kind |-> k, obj |-> 0] : k \in {"none", "malformed", "trailing", "object"}},
          id : IDs, referer : {0}]
    \cup [handler : {"login"}, body : Bodies(ZeroLogin, LoginObjects), id : {0},
          referer : Strs]
    \cup [handler : {"refresh"}, body : Bodies(ZeroRefresh, RefreshObjects),
          id : {0}, referer : Strs]

(***************************************************************************)
(* The UserService: any method may fail or return any value.               *)
(***************************************************************************)
User(i) ==
    [ID |-> i, Email |-> i, FirstName |-> i, LastName |-> i, Role |-> i,
     Username |-> i]
NoUser == User(0)
UserResults ==
    {[err |-> ErrService, val |-> NoUser]}
        \cup {[err |-> NoErr, val |-> User(i)] : i \in NonEmpty}
TokenResults ==
    {[err |-> ErrService, val |-> 0]} \cup {[err |-> NoErr, val |-> t] : t \in NonEmpty}

(***************************************************************************)
(* State: the request, the handler's position and locals, the calls the    *)
(* service has received for the request, the response writer, and whether  *)
(* the handler panicked.                                                   *)
(***************************************************************************)
VARIABLES req, pc, payload, token, result, calls, w, panicked

vars == <<req, pc, payload, token, result, calls, w, panicked>>

NoToken == [err |-> NoErr, isNil |-> TRUE, Valid |-> FALSE, Claims |-> NoClaims]

ZeroPayload(h) ==
    CASE h = "create" -> [isNil |-> FALSE, v |-> ZeroCreate]
      [] h = "login" -> [isNil |-> FALSE, v |-> ZeroLogin]
      [] h = "refresh" -> [isNil |-> FALSE, v |-> ZeroRefresh]
      [] OTHER -> [isNil |-> FALSE, v |-> [id |-> 0]]

Init ==
    /\ req \in Requests
    /\ pc = "decode"
    /\ payload = ZeroPayload(req.handler)
    /\ token = NoToken
    /\ result = [err |-> NoErr, val |-> 0]
    /\ calls = <<>>
    /\ w = NewWriter
    /\ panicked = FALSE

\* A runtime panic unwinds the handler: nothing more is written.
Panic ==
    /\ panicked' = TRUE
    /\ pc' = "done"

(***************************************************************************)
(* handleCreateUser                                                        *)
(***************************************************************************)
newUserSwapped(p) ==
    [Email |-> p.Email, FirstName |-> p.LastName, LastName |-> p.FirstName,
     Password |-> p.Password, Role |-> p.Role, Username |-> p.Username]

newUser(p) ==
    [Email |-> p.Email, FirstName |-> p.FirstName, LastName |-> p.LastName,
     Password |-> p.Password, Role |-> p.Role, Username |-> p.Username]

CreateDecode ==
    /\ req.handler = "create" /\ pc = "decode"
    /\ LET d == Decode(req.body, payload)
       IN /\ payload' = d.payload
          /\ w' = IF d.err # NoErr
                  THEN respondWithError(w, "unable to decode json request", d.err,
                                        StatusInternalServerError)
                  ELSE w
          /\ pc' = Return(d.err # NoErr, "validate")
    /\ UNCHANGED <<req, token, result, calls, panicked>>

CreateValidate ==
    /\ req.handler = "create" /\ pc = "validate"
    /\ LET err == validateCreateUser(payload)
       IN /\ w' = IF err # NoErr
                  THEN respondWithError(w, "Validation error", err, StatusBadRequest)
                  ELSE w
          /\ pc' = Return(err # NoErr, "call")
    /\ UNCHANGED <<req, payload, token, result, calls, panicked>>

CreateCall ==
    /\ req.handler = "create" /\ pc = "call"
    /\ IF payload.isNil
       THEN Panic /\ UNCHANGED <<result, calls>>
       ELSE /\ \E r \in UserResults : result' = r
            /\ calls' = Append(calls, [method |-> "Create",
                                       args |-> <<newUser(payload.v)>>])
            /\ pc' = "check"
            /\ UNCHANGED panicked
    /\ UNCHANGED <<req, payload, token, w>>

CreateCheck ==
    /\ req.handler = "create" /\ pc = "check"
    /\ w' = IF result.err # NoErr
            THEN respondWithError(w, "unable to add user", result.err,
                                  StatusInternalServerError)
            ELSE w
    /\ pc' = Return(result.err # NoErr, "respond")
    /\ UNCHANGED <<req, payload, token, result, calls, panicked>>

CreateRespond ==
    /\ req.handler = "create" /\ pc = "respond"
    /\ LET m == Marshal([type |-> "CreateUserResponse", User |-> result.val])
       IN w' = IF m.err # NoErr
               THEN respondWithError(w, "unable to marshal json response", m.err,
                                     StatusInternalServerError)
               ELSE respondCreated(w, m.js)
    /\ pc' = "done"
    /\ UNCHANGED <<req, payload, token, result, calls, panicked>>

handleCreateUser ==
    CreateDecode \/ CreateValidate \/ CreateCall \/ CreateCheck \/ CreateRespond

(***************************************************************************)
(* handleGetUserByID: the identifier comes from the route, the body is     *)
(* never read.                                                             *)
(***************************************************************************)
GetDecode ==
    /\ req.handler = "get" /\ pc = "decode"
    /\ payload' = [isNil |-> FALSE, v |-> [id |-> req.id]]
    /\ pc' = "validate"
    /\ UNCHANGED <<req, token, result, calls, w, panicked>>

GetValidate ==
    /\ req.handler = "get" /\ pc = "validate"
    /\ LET err == validateGetUserByID(payload.v.id)
       IN /\ w' = IF err # NoErr
                  THEN respondWithError(w, "Validation error", err, StatusBadRequest)
                  ELSE w
          /\ pc' = Return(err # NoErr, "call")
    /\ UNCHANGED <<req, payload, token, result, calls, panicked>>

GetCall ==
    /\ req.handler = "get" /\ pc = "call"
    /\ \E r \in UserResults : result' = r
    /\ calls' = Append(calls, [method |-> "GetByID", args |-> <<payload.v.id>>])
    /\ pc' = "check"
    /\ UNCHANGED <<req, payload, token, w, panicked>>

GetCheck ==
    /\ req.handler = "get" /\ pc = "check"
    /\ w' = IF result.err # NoErr
            THEN respondWithError(w, "unable to get user", result.err,
                                  StatusInternalServerError)
            ELSE w
    /\ pc' = Return(result.err # NoErr, "respond")
    /\ UNCHANGED <<req, payload, token, result, calls, panicked>>

GetRespond ==
    /\ req.handler = "get" /\ pc = "respond"
    /\ LET m == Marshal([type |-> "GetUserResponse", User |-> result.val])
       IN w' = IF m.err # NoErr
               THEN respondWithError(w, "unable to marshal json response", m.err,
                                     StatusInternalServerError)
               ELSE respondOK(w, m.js)
    /\ pc' = "done"
    /\ UNCHANGED <<req, payload, token, result, calls, panicked>>

handleGetUserByID ==
    GetDecode \/ GetValidate \/ GetCall \/ GetCheck \/ GetRespond

(***************************************************************************)
(* handleLoginUser                                                         *)
(***************************************************************************)
LoginDecode ==
    /\ req.handler = "login" /\ pc = "decode"
    /\ LET d == Decode(req.body, payload)
       IN /\ payload' = d.payload
          /\ w' = IF d.err # NoErr
                  THEN respondWithError(w, "unable to decode json request", d.err,
                                        StatusInternalServerError)
                  ELSE w
          /\ pc' = Return(d.err # NoErr, "validate")
    /\ UNCHANGED <<req, token, result, calls, panicked>>

LoginValidate ==
    /\ req.handler = "login" /\ pc = "validate"
    /\ LET err == validateLoginUser(payload)
       IN /\ w' = IF err # NoErr
                  THEN respondWithError(w, "Validation error", err, StatusBadRequest)
                  ELSE w
          /\ pc' = Return(err # NoErr, "call")
    /\ UNCHANGED <<req, payload, token, result, calls, panicked>>

LoginCall ==
    /\ req.handler = "login" /\ pc = "call"
    /\ IF payload.isNil
       THEN Panic /\ UNCHANGED <<result, calls>>
       ELSE /\ \E r \in TokenResults : result' = r
            /\ calls' = Append(calls,
                   [method |-> "Login",
                    args |-> <<payload.v.Username, payload.v.Password, req.referer>>])
            /\ pc' = "check"
            /\ UNCHANGED panicked
    /\ UNCHANGED <<req, payload, token, w>>

LoginCheck ==
    /\ req.handler = "login" /\ pc = "check"
    /\ w' = IF result.err # NoErr
            THEN respondWithError(w, "unable to log in user", result.err,
                                  StatusBadRequest)
            ELSE w
    /\ pc' = Return(result.err # NoErr, "respond")
    /\ UNCHANGED <<req, payload, token, result, calls, panicked>>

LoginRespond ==
    /\ req.handler = "login" /\ pc = "respond"
    /\ LET m == Marshal([type |-> "LoginResponse", Token |-> result.val])
       IN w' = IF m.err # NoErr
               THEN respondWithError(w, "unable to marshal json response", m.err,
                                     StatusInternalServerError)
               ELSE respondOK(w, m.js)
    /\ pc' = "done"
    /\ UNCHANGED <<req, payload, token, result, calls, panicked>>

handleLoginUser ==
    LoginDecode \/ LoginValidate \/ LoginCall \/ LoginCheck \/ LoginRespond

(***************************************************************************)
(* handleRefreshToken                                                      *)
(***************************************************************************)
refreshArgsSwapped(claims, referer) == <<claims[2], claims[1], claims[3], referer>>

\* The arguments of svc.RefreshToken: sub, username, role, Referer.
refreshArgs(claims, referer) == <<claims[1], claims[2], claims[3], referer>>

RefreshDecode ==
    /\ req.handler = "refresh" /\ pc = "decode"
    /\ LET d == Decode(req.body, payload)
       IN /\ payload' = d.payload
          /\ w' = IF d.err # NoErr
                  THEN respondWithError(w, "unable to decode json request", d.err,
                                        StatusInternalServerError)
                  ELSE w
          /\ pc' = Return(d.err # NoErr, "validate")
    /\ UNCHANGED <<req, token, result, calls, panicked>>

RefreshValidate ==
    /\ req.handler = "refresh" /\ pc = "validate"
    /\ LET err == validateRefreshToken(payload)
       IN /\ w' = IF err # NoErr
                  THEN respondWithError(w, "Validation error", err, StatusBadRequest)
                  ELSE w
          /\ pc' = Return(err # NoErr, "verify")
    /\ UNCHANGED <<req, payload, token, result, calls, panicked>>

RefreshVerify ==
    /\ req.handler = "refresh" /\ pc = "verify"
    /\ IF payload.isNil
       THEN Panic /\ UNCHANGED <<token, w>>
       ELSE LET t == Parse(payload.v.Token)
            IN /\ token' = t
               /\ w' = IF t.err # NoErr
                       THEN respondWithError(w, "Access not allowed", t.err,
                                             StatusForbidden)
                       ELSE IF ~t.Valid
                       THEN respondWithError(w, "Access not allowed", ErrInvalidToken,
                                             StatusForbidden)
                       ELSE w
               /\ pc' = IF t.err # NoErr
                        THEN Return(TRUE, "call")
                        ELSE Return(~t.Valid, "call")
               /\ UNCHANGED panicked
    /\ UNCHANGED <<req, payload, result, calls>>

RefreshCall ==
    /\ req.handler = "refresh" /\ pc = "call"
    /\ LET sub == AssertString(token.Claims.sub)
           username == AssertString(token.Claims.username)
           role == AssertString(token.Claims.role)
       IN IF token.isNil \/ ~sub.ok \/ ~username.ok \/ ~role.ok
          THEN Panic /\ UNCHANGED <<result, calls>>
          ELSE /\ \E r \in TokenResults : result' = r
               /\ calls' = Append(calls,
                      [method |-> "RefreshToken",
                       args |-> refreshArgs(<<sub.val, username.val, role.val>>,
                                            req.referer)])
               /\ pc' = "check"
               /\ UNCHANGED panicked
    /\ UNCHANGED <<req, payload, token, w>>

RefreshCheck ==
    /\ req.handler = "refresh" /\ pc = "check"
    /\ w' = IF result.err # NoErr
            THEN respondWithError(w, "unable to refresh token", result.err,
                                  StatusInternalServerError)
            ELSE w
    /\ pc' = Return(result.err # NoErr, "respond")
    /\ UNCHANGED <<req, payload, token, result, calls, panicked>>

RefreshRespond ==
    /\ req.handler = "refresh" /\ pc = "respond"
    /\ LET m == Marshal([type |-> "LoginResponse", Token |-> result.val])
       IN w' = IF m.err # NoErr
               THEN respondWithError(w, "unable to marshal json response", m.err,
                                     StatusInternalServerError)
               ELSE respondOK(w, m.js)
    /\ pc' = "done"
    /\ UNCHANGED <<req, payload, token, result, calls, panicked>>

handleRefreshToken ==
    \/ RefreshDecode \/ RefreshValidate \/ RefreshVerify
    \/ RefreshCall \/ RefreshCheck \/ RefreshRespond

Next ==
    handleCreateUser \/ handleGetUserByID \/ handleLoginUser \/ handleRefreshToken

Spec == Init /\ [][Next]_vars

(***************************************************************************)
(* What the client and the service observe.                                *)
(***************************************************************************)
Done == pc = "done"

\* The payload the body decodes to, and whether decoding succeeds.
Decoded == Decode(req.body, ZeroPayload(req.handler))
BodyDecodes == req.handler = "get" \/ Decoded.err = NoErr

\* The verdict of the handler's validator on the request.
Verdict ==
    CASE req.handler = "create" -> validateCreateUser(Decoded.payload)
      [] req.handler = "login" -> validateLoginUser(Decoded.payload)
      [] req.handler = "refresh" -> validateRefreshToken(Decoded.payload)
      [] OTHER -> validateGetUserByID(req.id)
ValidatorRejects == BodyDecodes /\ Verdict # NoErr
PassesValidation == BodyDecodes /\ Verdict = NoErr

PastValidation == pc \notin {"decode", "validate"}

ErrorWritten == \E i \in 1..Len(w.body) : w.body[i].key = "message"
SuccessWritten == \E i \in 1..Len(w.body) : w.body[i].key # "message"

\* The one error envelope {"message": "<context>: <error text>"}.
IsEnvelope(js) == js.key = "message" /\ Len(js.val) = 2 /\ js.val[1] # ""

\* The token of a refresh request that carries one.
CarriesToken ==
    /\ req.handler = "refresh" /\ req.body.kind \in {"object", "trailing"}
    /\ req.body.obj.Token \in SignedTokens
ReqToken == req.body.obj.Token
WellSigned(tok) ==
    /\ tok.alg = "HS256" /\ tok.signedWith = SecretKey
    /\ ~tok.expired /\ ~tok.notYet
StringClaims(tok) ==
    /\ tok.claims.sub.kind = "string"
    /\ tok.claims.username.kind = "string"
    /\ tok.claims.role.kind = "string"

\* C1: in each of the four handlers, when the validator rejects the request
\* the response status is 400 and no UserService method has been invoked.
C1_RejectedBeforeService ==
    (ValidatorRejects /\ PastValidation) =>
        /\ Done
        /\ w.status = StatusBadRequest
        /\ calls = <<>>

C1_Witness ==
    /\ Done /\ ValidatorRejects /\ req.handler = "get"
    /\ w.status = StatusBadRequest /\ calls = <<>>

\* A body that is not a JSON text: its first value is broken, or bytes that
\* are no JSON follow it.
MalformedJSON == req.body.kind \in {"malformed", "trailing"}

\* C2 as stated: for a malformed JSON body every one of the four handlers
\* answers 500 with a message containing "unable to decode json request".
C2_AllFourHandlers ==
    (Done /\ MalformedJSON) =>
        /\ w.status = StatusInternalServerError
        /\ Len(w.body) = 1
        /\ w.body[1].key = "message"
        /\ w.body[1].val[1] = "unable to decode json request"

\* C2 amended: for a body whose first JSON value is malformed each of the
\* three handlers that read the body (create user, login, refresh token)
\* answers 500 with a message containing "unable to decode json request",
\* and calls no service.
C2_BodyHandlers ==
    (Done /\ req.body.kind = "malformed" /\ req.handler # "get") =>
        /\ w.status = StatusInternalServerError
        /\ Len(w.body) = 1
        /\ w.body[1].key = "message"
        /\ w.body[1].val[1] = "unable to decode json request"
        /\ calls = <<>>

C2_Witness ==
    /\ Done /\ req.body.kind = "malformed" /\ req.handler = "login"
    /\ w.status = StatusInternalServerError

\* C3: a create-user request that decodes and passes validation reaches
\* UserService.Create exactly once, with the decoded payload's six fields;
\* when Create succeeds the response is 201 with Create's user under `user`.
C3_CreateCalledOnce ==
    (req.handler = "create" /\ PassesValidation) =>
        /\ Len(calls) <= 1
        /\ pc \in {"check", "respond", "done"} =>
              calls = <<[method |-> "Create", args |-> <<req.body.obj>>]>>
        /\ (Done /\ result.err = NoErr) =>
              /\ w.status = StatusCreated
              /\ w.body = <<[key |-> "user", val |-> result.val]>>

C3_Witness ==
    /\ Done /\ req.handler = "create" /\ PassesValidation
    /\ req.body.obj.FirstName # req.body.obj.LastName
    /\ result.err = NoErr /\ w.status = StatusCreated

\* C4: a refresh request whose token is signed with another algorithm than
\* HS256, or whose signature or expiry is invalid, is answered 403 and
\* UserService.RefreshToken is never called for it.
C4_BadTokenForbidden ==
    (CarriesToken /\ ~WellSigned(ReqToken)) =>
        /\ calls = <<>>
        /\ pc \in {"decode", "validate", "verify", "done"}
        /\ Done => (w.status = StatusForbidden /\ ~SuccessWritten)

C4_Witness ==
    /\ Done /\ CarriesToken /\ ReqToken.alg = "HS384"
    /\ ReqToken.signedWith = SecretKey /\ ~ReqToken.expired /\ ~ReqToken.notYet
    /\ StringClaims(ReqToken)
    /\ w.status = StatusForbidden

\* C5: a refresh request that passes validation with a validly signed token
\* whose claims sub, username and role are strings s, u, r invokes
\* RefreshToken(s, u, r, Referer); when the call succeeds the response is 200
\* and its token is the one RefreshToken returned.
C5_RefreshDelegates ==
    (CarriesToken /\ WellSigned(ReqToken) /\ StringClaims(ReqToken)) =>
        /\ Len(calls) <= 1
        /\ pc \in {"check", "respond", "done"} =>
              calls = <<[method |-> "RefreshToken",
                         args |-> <<ReqToken.claims.sub.val,
                                    ReqToken.claims.username.val,
                                    ReqToken.claims.role.val, req.referer>>]>>
        /\ (Done /\ result.err = NoErr) =>
              /\ w.status = StatusOK
              /\ w.body = <<[key |-> "token", val |-> result.val]>>

C5_Witness ==
    /\ Done /\ CarriesToken /\ WellSigned(ReqToken) /\ StringClaims(ReqToken)
    /\ ReqToken.claims.sub.val # ReqToken.claims.username.val
    /\ req.referer # 0
    /\ result.err = NoErr /\ w.status = StatusOK

\* C6: every response of the four handlers, success or error, reaches the
\* client with the Content-Type application/json.
C6_ContentTypeJSON ==
    (Done /\ w.wroteHeader) => SentContentType(w) = "application/json"

\* The statuses the HTTP surface table lists, and the table with the decode
\* failure of login added.
TableStatuses(h) ==
    CASE h = "create" -> {StatusCreated, StatusBadRequest, StatusInternalServerError}
      [] h = "get" -> {StatusOK, StatusBadRequest, StatusInternalServerError}
      [] h = "login" -> {StatusOK, StatusBadRequest}
      [] OTHER -> {StatusOK, StatusBadRequest, StatusForbidden,
                   StatusInternalServerError}
AmendedStatuses(h) ==
    IF h = "login"
    THEN {StatusOK, StatusBadRequest, StatusInternalServerError}
    ELSE TableStatuses(h)

\* C7 as stated: every response status lies in the set the table lists for
\* its endpoint, 400 being login's only failure status.
C7_StatusInTable ==
    (Done /\ w.wroteHeader) => w.status \in TableStatuses(req.handler)

\* C7 amended: every response status lies in the table's set for its
\* endpoint, where login's set is {200, 400, 500}: 400 for a validation or
\* login failure and 500 for a body that does not decode.
C7_StatusInAmendedTable ==
    /\ w.wroteHeader => w.status \in AmendedStatuses(req.handler)
    /\ (Done /\ ~panicked) => w.wroteHeader
    /\ (Done /\ req.handler = "login" /\ w.status = StatusInternalServerError)
          => ~BodyDecodes

C7_Witness ==
    /\ Done /\ req.handler = "create" /\ w.status = StatusCreated

\* C8: a request that fails at any step (decoding, validation, token
\* verification, claim extraction, service call, marshalling) is reported
\* exactly once: one response, whose body is the error envelope, and the
\* service is invoked at most once.
C8_FailureReportedOnce ==
    (Done /\ ~SuccessWritten) =>
        /\ w.headerCalls = 1
        /\ Len(w.body) = 1
        /\ IsEnvelope(w.body[1])
        /\ Len(calls) <= 1

\* The lifecycle state of the request, read off what has happened to it.
State ==
    IF panicked \/ ErrorWritten THEN "Errored"
    ELSE IF SuccessWritten THEN "Responded"
    ELSE IF calls # <<>> THEN "ServiceCalled"
    ELSE IF pc \in {"verify", "call"} THEN "Validated"
    ELSE IF pc = "validate" THEN "Decoded"
    ELSE "Received"

Successor(st) ==
    CASE st = "Received" -> "Decoded"
      [] st = "Decoded" -> "Validated"
      [] st = "Validated" -> "ServiceCalled"
      [] st = "ServiceCalled" -> "Responded"
      [] OTHER -> st

\* C9: a request advances only along Received, Decoded, Validated,
\* ServiceCalled, Responded, one state at a time and never backwards; Errored
\* is reachable from every step and absorbing: after it nothing happens (no
\* service call, no further write), and a handler ends Responded or Errored.
C9_LinearLifecycle ==
    [][/\ State' \in {State, Successor(State), "Errored"}
       /\ State \in {"Errored", "Responded"} => State' = State
       /\ State = "Errored" => (calls' = calls /\ w' = w /\ pc = "done")
       /\ pc' = "done" => State' \in {"Responded", "Errored"}]_vars

C9_Witness ==
    /\ Done /\ State = "Errored" /\ Len(calls) = 1 /\ req.handler = "get"
    /\ w.status = StatusInternalServerError

\* C10: a refresh request whose token verifies but whose sub, username or
\* role claim is absent or not a string aborts the handler: RefreshToken is
\* not invoked and nothing is written, neither a status nor an envelope.
C10_MalformedClaimsAbort ==
    (CarriesToken /\ WellSigned(ReqToken) /\ ~StringClaims(ReqToken)) =>
        /\ calls = <<>>
        /\ w = NewWriter
        /\ pc \in {"decode", "validate", "verify", "call", "done"}
        /\ Done => panicked

C10_Witness ==
    /\ Done /\ panicked /\ CarriesToken /\ WellSigned(ReqToken)
    /\ ReqToken.claims.sub.kind = "string"
    /\ ReqToken.claims.username.kind = "string"
    /\ ReqToken.claims.role.kind = "number"

====
